---- MODULE Spec2Model ----
(***************************************************************************)
(* Model of sunrise-sunset.py: the day-by-day loop that turns the sunrise  *)
(* and sunset instants of each day into "landscaping lights" calendar      *)
(* events, and the output step that writes events.ics.                     *)
(*                                                                         *)
(* Instants are minutes on one time axis; a date is the instant of its     *)
(* local midnight.  The ephemeris (almanac.find_discrete), the calendar    *)
(* library (Calendar, Event) and the file system are external: the         *)
(* ephemeris is a nondeterministic choice of the instants it returns, an   *)
(* Event is the record of the attributes the script assigns, and the file  *)
(* events.ics is the set of events last written to it.                     *)
(***************************************************************************)
EXTENDS Integers, Sequences, FiniteSets

\* ---- bounds of the model ----
\* dates range over day 0 .. MaxDay
MaxDay == 1
\* find_discrete returns at most MaxTimes instants for one day
MaxTimes == 3

\* ---- program constants (minutes) ----
one_day == 24 * 60
fifteen_minutes == 15
am_on_time == 6 * 60 + 30
pm_off_time == 23 * 60 + 15

MorningName == "Morning landscaping lights"
EveningName == "Evening landscaping lights"

\* Times of day the ephemeris may report: 05:45, 06:30, 06:40, 06:45, 06:50,
\* 20:45 and 23:20 (sunrise before, at, less than / exactly / more than
\* fifteen minutes after the morning on-time; sunset before and after the
\* evening off-time).
Offsets == {345, 390, 400, 405, 410, 1245, 1400}

Dates == {k * one_day : k \in 0..MaxDay}

\* events.ics as it may exist before the run
OldEvent == [name |-> "Earlier run", begin |-> 0, end |-> 1]
NoFile == [exists |-> FALSE, content |-> {}]
OldFile == [exists |-> TRUE, content |-> {OldEvent}]

VARIABLES
    start_date,   \* first date of the range
    stop_date,    \* last date of the range (inclusive)
    d,            \* the date the loop is at
    times,        \* what find_discrete returned last
    sunrise,      \* times[0] of the last day indexed
    sunset,       \* times[1] of the last day indexed
    calendar,     \* calendar.events: the set of Event records
    num_events,   \* the counter
    processed,    \* history: the dates whose iteration ran to its end
    fs,           \* the file events.ics
    fs0,          \* history: events.ics before the run
    unlinks,      \* history: number of os.unlink calls
    writes,       \* history: number of writelines calls
    err,          \* the error that ended the run, "none" if none
    pc            \* where the script is

vars == <<start_date, stop_date, d, times, sunrise, sunset, calendar,
          num_events, processed, fs, fs0, unlinks, writes, err, pc>>

\* ---- helpers ----

\* the strictly ascending sequences of n times of day
AscTimes(n) ==
    { t \in [1..n -> Offsets] : \A i \in 1..(n-1) : t[i] < t[i+1] }

\* the times of day of every result find_discrete can give for one day
AllAscTimes == UNION { AscTimes(n) : n \in 0..MaxTimes }

\* every result find_discrete can give for the window [day, day + one_day]
FindDiscrete(day) == { [i \in DOMAIN t |-> day + t[i]] : t \in AllAscTimes }

\* datetime(d.year, d.month, d.day, hour, minute): that time on d's date
OnDate(day, timeofday) == (day \div one_day) * one_day + timeofday

\* while d <= stop_date
LoopCond_strict(day, stop) == day < stop
LoopCond(day, stop) == day <= stop

\* d += one_day
NextDay(day) == day + one_day

\* times[0], times[1] raise IndexError
IndexFails_nottwo(ts) == Len(ts) # 2
IndexFails(ts) == Len(ts) < 2

\* if sunrise - start >= fifteen_minutes
MinGapMet_strict(rise, start) == rise - start > fifteen_minutes
MinGapMet_nothreshold(rise, start) == rise - start >= 0
MinGapMet_reversed(rise, start) == start - rise >= fifteen_minutes
MinGapMet(rise, start) == rise - start >= fifteen_minutes

MorningEvent(start, rise) ==
    [name |-> MorningName, begin |-> start, end |-> rise]

EveningEvent_amtime(set, stop) ==
    [name |-> EveningName, begin |-> set, end |-> stop - pm_off_time + am_on_time]
EveningEvent(set, stop) ==
    [name |-> EveningName, begin |-> set, end |-> stop]

\* num_events += 1 after the morning event, after the evening event
CountMorning_forgotten(n) == n
CountMorning(n) == n + 1
CountEvening(n) == n + 1

\* if num_events > 0
HasEvents_nonneg(n) == n >= 0
HasEvents(n) == n > 0

\* if os.path.exists(filename)
FileExists_never(f) == FALSE
FileExists(f) == f.exists

\* open(filename, 'w'): the file exists and is empty
OpenForWrite(f) == [exists |-> TRUE, content |-> {}]

\* ---- the script ----

Init ==
    /\ start_date \in Dates
    /\ stop_date \in Dates
    /\ d = start_date
    /\ times = <<>>
    /\ sunrise = 0
    /\ sunset = 0
    /\ calendar = {}
    /\ num_events = 0
    /\ processed = {}
    /\ fs \in {NoFile, OldFile}
    /\ fs0 = fs
    /\ unlinks = 0
    /\ writes = 0
    /\ err = "none"
    /\ pc = "loop"

\* One whole iteration of the loop, for a day with at least two instants.
LoopIteration ==
    /\ pc = "loop"
    /\ LoopCond(d, stop_date)
    /\ \E ts \in FindDiscrete(d) :
        /\ ~IndexFails(ts)
        /\ LET start == OnDate(d, am_on_time)
               stop  == OnDate(d, pm_off_time)
               am    == MinGapMet(ts[1], start)
               cal1  == IF am THEN calendar \cup {MorningEvent(start, ts[1])}
                              ELSE calendar
               n1    == IF am THEN CountMorning(num_events) ELSE num_events
           IN  /\ times' = ts
               /\ sunrise' = ts[1]
               /\ sunset' = ts[2]
               /\ calendar' = cal1 \cup {EveningEvent(ts[2], stop)}
               /\ num_events' = CountEvening(n1)
    /\ processed' = processed \cup {d}
    /\ d' = NextDay(d)
    /\ UNCHANGED <<start_date, stop_date, fs, fs0, unlinks, writes, err, pc>>

\* The IndexError caught and the script going on to its output step.
LoopIndexError_swallowed ==
    /\ pc = "loop"
    /\ LoopCond(d, stop_date)
    /\ \E ts \in FindDiscrete(d) :
        /\ IndexFails(ts)
        /\ times' = ts
        /\ sunrise' = IF Len(ts) >= 1 THEN ts[1] ELSE sunrise
    /\ err' = "IndexError"
    /\ pc' = "output"
    /\ UNCHANGED <<start_date, stop_date, d, sunset, calendar, num_events,
                   processed, fs, fs0, unlinks, writes>>

\* find_discrete returned fewer instants than the script indexes: times[0] or
\* times[1] raises IndexError (sunrise is assigned when times[0] exists).
LoopIndexError ==
    /\ pc = "loop"
    /\ LoopCond(d, stop_date)
    /\ \E ts \in FindDiscrete(d) :
        /\ IndexFails(ts)
        /\ times' = ts
        /\ sunrise' = IF Len(ts) >= 1 THEN ts[1] ELSE sunrise
    /\ err' = "IndexError"
    /\ pc' = "failed"
    /\ UNCHANGED <<start_date, stop_date, d, sunset, calendar, num_events,
                   processed, fs, fs0, unlinks, writes>>

\* ts.utc or find_discrete raised.
LoopServiceError ==
    /\ pc = "loop"
    /\ LoopCond(d, stop_date)
    /\ err' = "ServiceError"
    /\ pc' = "failed"
    /\ UNCHANGED <<start_date, stop_date, d, times, sunrise, sunset, calendar,
                   num_events, processed, fs, fs0, unlinks, writes>>

\* d > stop_date: the loop ends.
LoopExit ==
    /\ pc = "loop"
    /\ ~LoopCond(d, stop_date)
    /\ pc' = "output"
    /\ UNCHANGED <<start_date, stop_date, d, times, sunrise, sunset, calendar,
                   num_events, processed, fs, fs0, unlinks, writes, err>>

\* num_events is 0: nothing is done.
OutputSkip ==
    /\ pc = "output"
    /\ ~HasEvents(num_events)
    /\ pc' = "done"
    /\ UNCHANGED <<start_date, stop_date, d, times, sunrise, sunset, calendar,
                   num_events, processed, fs, fs0, unlinks, writes, err>>

\* events.ics exists: os.unlink(filename).
OutputUnlink ==
    /\ pc = "output"
    /\ HasEvents(num_events)
    /\ FileExists(fs)
    /\ fs' = NoFile
    /\ unlinks' = unlinks + 1
    /\ pc' = "open"
    /\ UNCHANGED <<start_date, stop_date, d, times, sunrise, sunset, calendar,
                   num_events, processed, fs0, writes, err>>

\* events.ics does not exist: nothing to unlink.
OutputNoUnlink ==
    /\ pc = "output"
    /\ HasEvents(num_events)
    /\ ~FileExists(fs)
    /\ pc' = "open"
    /\ UNCHANGED <<start_date, stop_date, d, times, sunrise, sunset, calendar,
                   num_events, processed, fs, fs0, unlinks, writes, err>>

\* open(filename, 'w')
OutputOpen ==
    /\ pc = "open"
    /\ fs' = OpenForWrite(fs)
    /\ pc' = "write"
    /\ UNCHANGED <<start_date, stop_date, d, times, sunrise, sunset, calendar,
                   num_events, processed, fs0, unlinks, writes, err>>

\* my_file.writelines(calendar), and the file is closed
OutputWrite ==
    /\ pc = "write"
    /\ fs' = [exists |-> TRUE, content |-> fs.content \cup calendar]
    /\ writes' = writes + 1
    /\ pc' = "done"
    /\ UNCHANGED <<start_date, stop_date, d, times, sunrise, sunset, calendar,
                   num_events, processed, fs0, unlinks, err>>

\* os.unlink, open or writelines raised.
OutputOSError ==
    /\ pc \in {"open", "write"} \/ (pc = "output" /\ HasEvents(num_events))
    /\ err' = "OSError"
    /\ pc' = "failed"
    /\ UNCHANGED <<start_date, stop_date, d, times, sunrise, sunset, calendar,
                   num_events, processed, fs, fs0, unlinks, writes>>

Next ==
    \/ LoopIteration
    \/ LoopIndexError
    \/ LoopServiceError
    \/ LoopExit
    \/ OutputSkip
    \/ OutputUnlink
    \/ OutputNoUnlink
    \/ OutputOpen
    \/ OutputWrite
    \/ OutputOSError

Spec == Init /\ [][Next]_vars

\* The script is one sequential process: it keeps running until it ends.
LiveSpec == Spec /\ WF_vars(Next)

TypeOK ==
    /\ pc \in {"loop", "output", "open", "write", "done", "failed"}
    /\ err \in {"none", "IndexError", "ServiceError", "OSError"}
    /\ num_events \in Nat

\* ---- properties ----

\* the step is an iteration of the loop that ran to its end
IterationDone == pc = "loop" /\ d' # d

\* the step is an iteration of the loop in which find_discrete returned
Returned == pc = "loop" /\ d <= stop_date /\ err' # "ServiceError"

\* the events of set c with name n
Named(c, n) == {e \in c : e.name = n}

\* 06:30 and 23:15 on the date of instant day
MorningOn(day) == (day \div (24 * 60)) * (24 * 60) + (6 * 60 + 30)
EveningOff(day) == (day \div (24 * 60)) * (24 * 60) + (23 * 60 + 15)

\* C1: an iteration for a day whose sunrise is at least 15 minutes after 06:30
\* of that date (exactly 15 included) adds exactly one event named "Morning
\* landscaping lights", with begin = 06:30 of that date and end = the sunrise,
\* and the collection then holds exactly that one morning event for the day.
C1_MorningEventAdded ==
    [][ (IterationDone /\ sunrise' - MorningOn(d) >= 15) =>
          LET want == [name |-> "Morning landscaping lights",
                       begin |-> MorningOn(d), end |-> sunrise']
          IN  /\ Named(calendar' \ calendar, "Morning landscaping lights") = {want}
              /\ want \notin calendar
              /\ {e \in Named(calendar', "Morning landscaping lights") :
                    e.begin = MorningOn(d)} = {want}
      ]_vars

\* C1 witness: a day whose sunrise is exactly 15 minutes after 06:30 has been
\* processed and its morning event is in the collection.
C1_Witness ==
    /\ pc = "loop"
    /\ d > start_date
    /\ sunrise - MorningOn(d - one_day) = 15
    /\ \E e \in calendar : /\ e.name = "Morning landscaping lights"
                           /\ e.end = sunrise
                           /\ e.end - e.begin = 15

\* C2: an iteration for a day whose sunrise is less than 15 minutes after 06:30
\* of that date (at or before 06:30 included) adds no morning event, the
\* collection holds no morning event for that day, and the counter goes up by
\* the evening event's one only.
C2_NoMorningEventBelowGap ==
    [][ (IterationDone /\ sunrise' - MorningOn(d) < 15) =>
          /\ Named(calendar' \ calendar, "Morning landscaping lights") = {}
          /\ {e \in Named(calendar', "Morning landscaping lights") :
                e.begin = MorningOn(d)} = {}
          /\ num_events' = num_events + 1
      ]_vars

\* C2 witness: a day whose sunrise is exactly at 06:30 (gap zero) has been
\* processed, and no morning event of that day is in the collection.
C2_Witness ==
    /\ pc = "loop"
    /\ d > start_date
    /\ sunrise = MorningOn(d - one_day)
    /\ \A e \in calendar : e.begin # MorningOn(d - one_day)

\* C3: every iteration that runs to its end adds exactly one event named
\* "Evening landscaping lights", with begin = the day's sunset and end = 23:15
\* of that date, whatever the sunrise and sunset are and whether or not a
\* morning event was added.
C3_EveningEventAdded ==
    [][ IterationDone =>
          LET want == [name |-> "Evening landscaping lights",
                       begin |-> sunset', end |-> EveningOff(d)]
          IN  /\ Named(calendar' \ calendar, "Evening landscaping lights") = {want}
              /\ want \notin calendar
              /\ {e \in Named(calendar', "Evening landscaping lights") :
                    e.end = EveningOff(d)} = {want}
      ]_vars

\* C3 witness: a day with no morning event and a sunset after 23:15 has been
\* processed and its evening event is in the collection.
C3_Witness ==
    /\ pc = "loop"
    /\ d > start_date
    /\ sunrise < MorningOn(d - one_day)
    /\ sunset > EveningOff(d - one_day)
    /\ [name |-> "Evening landscaping lights", begin |-> sunset,
        end |-> EveningOff(d - one_day)] \in calendar

\* the dates from a to b, one day apart
Range(a, b) == {a + k * (24 * 60) : k \in 0..((b - a) \div (24 * 60))}

\* when the loop has ended without an error, d > stop_date and, for
\* start_date <= stop_date, the days processed are exactly start_date,
\* start_date + 1 day, ..., stop_date
InclusiveRange ==
    (pc # "loop" /\ err \notin {"IndexError", "ServiceError"}) =>
        /\ d > stop_date
        /\ start_date <= stop_date =>
              /\ processed = Range(start_date, stop_date)
              /\ start_date \in processed
              /\ stop_date \in processed
              /\ Cardinality(processed) =
                    (stop_date - start_date) \div (24 * 60) + 1

\* C4: the loop ends; every iteration advances d by exactly one day; and when
\* the loop has ended without an error d > stop_date and, for
\* start_date <= stop_date, the days processed are exactly start_date,
\* start_date + 1 day, ..., stop_date: (stop_date - start_date).days + 1 days.
C4_LoopTerminatesInclusive ==
    /\ <>(pc # "loop")
    /\ [][d' # d => d' = d + 24 * 60]_vars
    /\ InclusiveRange
    /\ [][InclusiveRange']_vars

\* C4 witness: the loop has ended over a range of more than one day.
C4_Witness ==
    /\ pc = "output"
    /\ start_date < stop_date
    /\ processed = {start_date, stop_date}

\* C5: once the loop has ended with the counter at zero, events.ics is as it
\* was before the run: it is neither unlinked nor opened nor written.
C5_ZeroEventsNoOutput ==
    (pc # "loop" /\ num_events = 0) =>
        /\ fs = fs0
        /\ unlinks = 0
        /\ writes = 0
        /\ pc \in {"output", "done", "failed"}

\* C5 witness: a run over an empty range has ended with an earlier events.ics
\* still in place.
C5_Witness ==
    /\ pc = "done"
    /\ num_events = 0
    /\ fs0 = OldFile
    /\ fs = OldFile

\* C6: the collection is written at most once and never while the loop runs;
\* when the file is opened for writing it does not exist (an earlier file has
\* been unlinked), and it is empty when the events are written; a run with at
\* least one event that reaches its end has written the collection once, and
\* events.ics then holds exactly the events of this run.
C6_WrittenOnceAfterUnlink ==
    /\ writes <= 1
    /\ pc = "loop" => (writes = 0 /\ unlinks = 0 /\ fs = fs0)
    /\ pc = "open" => (~fs.exists /\ writes = 0 /\ unlinks = (IF fs0.exists THEN 1 ELSE 0))
    /\ pc = "write" => (fs.exists /\ fs.content = {} /\ writes = 0)
    /\ (pc = "done" /\ num_events > 0) =>
          /\ writes = 1
          /\ fs.exists
          /\ fs.content = calendar
          /\ OldEvent \notin fs.content

\* C6 witness: a run with events has ended and replaced an earlier events.ics.
C6_Witness ==
    /\ pc = "done"
    /\ num_events > 0
    /\ fs0 = OldFile
    /\ unlinks = 1
    /\ fs.content = calendar

\* C7 as stated: a day for which find_discrete returns a number of instants
\* other than two ends the run with an IndexError and adds no event.
C7_NotTwoIsFatal ==
    [][ (Returned /\ Len(times') # 2) =>
          /\ err' = "IndexError"
          /\ pc' = "failed"
          /\ calendar' = calendar
      ]_vars

\* C7 as amended: a day for which find_discrete returns fewer than two instants
\* (none or one) ends the run with an IndexError and adds no event; a day with
\* two or more instants is processed, the first two taken as sunrise and sunset.
C7_FewerThanTwoIsFatal ==
    [][ Returned =>
          /\ Len(times') < 2 =>
                /\ err' = "IndexError"
                /\ pc' = "failed"
                /\ calendar' = calendar
                /\ num_events' = num_events
                /\ d' = d
          /\ Len(times') >= 2 =>
                /\ err' = "none"
                /\ pc' = "loop"
                /\ d' = d + 24 * 60
                /\ sunrise' = times'[1]
                /\ sunset' = times'[2]
                /\ Named(calendar' \ calendar, "Evening landscaping lights") # {}
      ]_vars

\* C7 witness: a day with three instants has been processed without an error.
C7_Witness ==
    /\ Len(times) = 3
    /\ err = "none"
    /\ d > start_date
    /\ \E e \in calendar : e.begin = times[2]

\* C8 as stated: every event of the collection has begin <= end.
C8_AllEventsOrdered == \A e \in calendar : e.begin <= e.end

\* C8 as amended: every morning event of the collection has begin <= end, its
\* end being at least 15 minutes after its begin (evening events are not
\* checked and may have begin > end).
C8_MorningEventsOrdered ==
    \A e \in Named(calendar, "Morning landscaping lights") :
        e.begin <= e.end /\ e.end - e.begin >= 15

\* C8 witness: the collection holds a morning event and an evening event whose
\* begin is after its end.
C8_Witness ==
    /\ \E e \in Named(calendar, "Morning landscaping lights") : e.begin < e.end
    /\ \E e \in Named(calendar, "Evening landscaping lights") : e.begin > e.end

\* C9: when an iteration of the loop has raised an error the run has ended
\* there: events.ics is as it was before the run, never unlinked nor written.
C9_LoopErrorNoOutput ==
    err \in {"IndexError", "ServiceError"} =>
        /\ pc = "failed"
        /\ fs = fs0
        /\ unlinks = 0
        /\ writes = 0

\* C9 witness: the second day raised, with the first day's events collected and
\* an earlier events.ics still in place.
C9_Witness ==
    /\ err = "IndexError"
    /\ processed # {}
    /\ num_events > 0
    /\ fs0 = OldFile
    /\ fs = OldFile

\* the counter equals the number of events in the collection, lies between N
\* and 2N after N days, and is 0 after the loop only when no day was processed
CounterInv ==
    /\ num_events = Cardinality(calendar)
    /\ Cardinality(processed) <= num_events
    /\ num_events <= 2 * Cardinality(processed)
    /\ (pc # "loop" /\ num_events = 0) => processed = {}

\* C10: the counter always equals the number of events in the collection; each
\* iteration that runs to its end raises it by 1 or by 2; after N days it is
\* between N and 2N; and it is 0 after the loop only when no day was processed.
C10_CounterMatchesCollection ==
    /\ CounterInv
    /\ [][CounterInv']_vars
    /\ [][IterationDone =>
            /\ num_events' - num_events \in {1, 2}
            /\ num_events' - num_events = Cardinality(calendar' \ calendar)
            /\ Cardinality(processed') = Cardinality(processed) + 1]_vars

\* C10 witness: two days processed, one with a morning event and one without.
C10_Witness ==
    /\ pc = "output"
    /\ Cardinality(processed) = 2
    /\ num_events = 3
    /\ Cardinality(calendar) = 3
====
